---- MODULE Spec2Model ----
(***************************************************************************)
(* Model of dlt/normalize/normalize.py: the Normalize stage.               *)
(*                                                                         *)
(*   group_worker_files   the file grouper (a pure function)               *)
(*   w_normalize_files    one worker job over a group of files             *)
(*   update_table         merge of worker schema updates into the schema   *)
(*   map_parallel         the polling mapper with its conflict retry       *)
(*   map_single           the inline single worker mapper                  *)
(*   spool_files          metrics, schema save, checkpoint, commit         *)
(*   spool_schema_files   import, parallel attempt, single worker fallback *)
(*   run                  the driver over one extracted package            *)
(***************************************************************************)
EXTENDS Integers, Sequences, FiniteSets, TLC

\* ------------------------------------------------------------------ bounds

\* longest file list handed to group_worker_files in SpecGroup
MaxGroupFiles == 7
\* largest group count handed to group_worker_files in SpecGroup
MaxGroups == 4
\* most extracted item files in the package that run() normalizes
MaxFiles == 3
\* widest pool (_max_workers) that run() is given
MaxWorkers == 2
\* most load ids that the extracted storage holds in SpecRun
MaxPackages == 3
\* most files of the one worker job of SpecSelect
MaxJobFiles == 3
\* the root tables of the extracted files
Tables == {"a", "b"}

\* the column types: 1 (int) and the wider 2 (text); 0 stands for "no column"
Types == {1, 2}

VARIABLES
    gFiles,     \* group_worker_files: the files argument
    gN,         \* group_worker_files: the no_groups argument
    gOut,       \* group_worker_files: the returned chunk_files
    gPc,        \* "call" before the call, "returned" or "IndexError" after,
                \*   "processed" when a worker job has run over every group
    gTrace,     \* per group, the files in the order w_normalize_files took them
    inFiles,    \* the extracted package's item files: file f is inFiles[f]
    poolWidth,  \* getattr(self.pool, "_max_workers", 1)
    schema0,    \* run(): the schema the package is normalized with
    xnorm0,     \* run(): the x-normalizer mapping of each table of that schema
    pc,         \* where the calling thread is in run/spool_schema_files/...
    exc,        \* the exception that ended run(), "none" when there is none
    mode,       \* the mapper in use: "none", "parallel" or "single"
    extracted,  \* the extracted package: [exists, files]
    tmp,        \* the temp load package new/<load_id>: [exists, files, schema,
                \*   updates, saved]
    committed,  \* the committed load package: [exists, files, schema, updates]
    storage,    \* the schema storage: [saved, schema]
    live,       \* the schema clone that spool_files and the mapper work on
    xnorm,      \* the x-normalizer mapping of each table of that clone
    attempts,   \* every worker job submitted so far, by attempt id
    tasks,      \* map_parallel: the list of outstanding attempt ids
    sweep,      \* map_parallel: the rest of list(tasks) in the current pass
    doneQ,      \* map_parallel: the finished jobs of tasks that the loop has not
                \*   collected yet, in the order in which they finished
    summary,    \* the TWorkerRV the mapper returns: [updates, metrics]
    tableMetrics, \* spool_files: table_metrics, items_count by table
    signalled,  \* the process-level signal flag
    sigAt,      \* the phase of run() in which the signal was set, or "never"
    raisedAt,   \* the value of pc when run() raised, "none" before
    rExtracted, \* run() over packages: the extracted package of each load id,
                \*   "none", "empty" (no new jobs) or "files"
    rIds,       \* run(): the load ids listed at line 478 and not yet visited
    rFound,     \* run(): len(load_ids) at line 479, -1 before the listing
    rPc,        \* run(): "list", "loop", "spool", "returned", "raised"; "off"
    rTemp,      \* the load ids with a temp load package
    rCommitted, \* the load ids with a committed load package
    rEmptied,   \* the load ids whose package run() found empty
    rRet,       \* the TRunMetrics that run() returned: [done, pending]
    nFiles,     \* a worker job: its files, each [table, format]
    nPos,       \* the number of files the job's loop has gone through
    nCache,     \* item_normalizers: the normalizer class cached for each table
    nMade,      \* the number of normalizers created for each table
    nUsed       \* per file gone through, the class of the normalizer called

gvars == <<gFiles, gN, gOut, gPc, gTrace>>

params == <<inFiles, poolWidth, schema0, xnorm0>>

disk == <<extracted, tmp, committed, storage>>

mvars == <<pc, exc, mode, live, xnorm, attempts, tasks, sweep, doneQ, summary, tableMetrics,
           signalled, sigAt, raisedAt>>

rvars == <<rExtracted, rIds, rFound, rPc, rTemp, rCommitted, rEmptied, rRet>>

nvars == <<nFiles, nPos, nCache, nMade, nUsed>>

vars == <<gvars, rvars, nvars, params, disk, mvars>>

\* ------------------------------------------------------- sequence helpers

Min(a, b) == IF a < b THEN a ELSE b

Max(a, b) == IF a > b THEN a ELSE b

RECURSIVE Flatten(_)
Flatten(ss) == IF ss = <<>> THEN <<>> ELSE Head(ss) \o Flatten(Tail(ss))

Range(s) == {s[i] : i \in DOMAIN s}

Reverse(s) == [i \in 1..Len(s) |-> s[Len(s) + 1 - i]]

Rotate(s, k) == [i \in 1..Len(s) |-> s[((i - 1 + k) % Len(s)) + 1]]

Count(s, x) == Cardinality({i \in DOMAIN s : s[i] = x})

\* ------------------------------------------------------ group_worker_files

\* a mutant of Sorted: the files are taken as they are listed
Unsorted(files) == files

\* sorted(files): file names are compared as their numbers
Sorted(files) == SortSeq(files, LAMBDA a, b : a < b)

\* chunks(seq, n): seq[i : i + n] for i in range(0, len(seq), n)
chunks(seq, n) ==
    [i \in 1..((Len(seq) + n - 1) \div n) |->
        SubSeq(seq, (i - 1) * n + 1, Min(i * n, Len(seq)))]

\* a mutant of RemainderL: the remainder chunks are never redistributed
RemainderLNone(nchunks, no_groups) == 0

\* remainder_l = len(chunk_files) - no_groups
RemainderL(nchunks, no_groups) == nchunks - no_groups

\* a mutant of AppendFile: the file replaces the group instead of joining it
AppendFileReplace(groups, pos, file) == [groups EXCEPT ![pos] = <<file>>]

\* chunk_files[...].append(file)
AppendFile(groups, pos, file) == [groups EXCEPT ![pos] = Append(@, file)]

\* chunk_files[-l_idx - idx - remainder_l] as a position 1..Len(groups); a python
\* index below -len(chunk_files) raises IndexError: position 0 stands for it
PyPos(groups, l_idx, idx, remainder_l) ==
    LET p == Len(groups) + 1 - l_idx - idx - remainder_l
    IN  IF p >= 1 THEN p ELSE 0

\* for idx, file in enumerate(reversed(last)): chunk_files[...].append(file);
\* the result is [err, groups]: err is TRUE when the index raised IndexError
RECURSIVE Distribute(_, _, _, _, _)
Distribute(groups, last, l_idx, remainder_l, idx) ==
    IF idx >= Len(last) THEN [err |-> FALSE, groups |-> groups]
    ELSE LET pos == PyPos(groups, l_idx, idx, remainder_l)
         IN  IF pos = 0 THEN [err |-> TRUE, groups |-> groups]
             ELSE Distribute(AppendFile(groups, pos, last[Len(last) - idx]),
                             last, l_idx, remainder_l, idx + 1)

\* while remainder_l > 0: pop the last chunk, distribute it, remainder_l -= 1,
\* l_idx = idx + 1
RECURSIVE Redistribute(_, _, _)
Redistribute(chunk_files, remainder_l, l_idx) ==
    IF remainder_l <= 0 THEN [err |-> FALSE, groups |-> chunk_files]
    ELSE LET last == chunk_files[Len(chunk_files)]
             rest == SubSeq(chunk_files, 1, Len(chunk_files) - 1)
             next == Distribute(rest, last, l_idx, remainder_l, 0)
         IN  IF next.err THEN next
             ELSE Redistribute(next.groups, remainder_l - 1, Len(last))

\* Normalize.group_worker_files(files, no_groups): [err, groups]
group_worker_files(files, no_groups) ==
    LET sorted == Sorted(files)
        chunk_size == Max(Len(sorted) \div no_groups, 1)
        chunk_files == chunks(sorted, chunk_size)
    IN  Redistribute(chunk_files, RemainderL(Len(chunk_files), no_groups), 0)

\* ------------------------------------------- SpecGroup: the grouper alone

\* the file lists tried: every rotation of 1..n ascending and descending
GroupInputs ==
    {<<>>} \cup
    UNION {{Rotate([i \in 1..n |-> i], k) : k \in 0..(n - 1)} \cup
           {Rotate(Reverse([i \in 1..n |-> i]), k) : k \in 0..(n - 1)}
           : n \in 1..MaxGroupFiles}

\* the x-normalizer mapping of a table: seen is the value of "seen-data", or
\* "absent" when the key is missing; evolve is TRUE when the key
\* "evolve-columns-once" is in the mapping
Hints == [seen : {"absent", "true", "false"}, evolve : BOOLEAN]

\* a table without x-normalizer keys
NoHints == [seen |-> "absent", evolve |-> FALSE]

\* a table that never saw data and may evolve its columns once
EvolveOnce == [seen |-> "absent", evolve |-> TRUE]

\* the package loop of run() is not looked at
RunOff ==
    /\ rExtracted = [id \in 1..MaxPackages |-> "none"]
    /\ rIds = <<>>
    /\ rFound = -1
    /\ rPc = "off"
    /\ rTemp = {}
    /\ rCommitted = {}
    /\ rEmptied = {}
    /\ rRet = [done |-> FALSE, pending |-> -1]

\* the normalizer cache of a worker job is not looked at
SelectOff ==
    /\ nFiles = <<>>
    /\ nPos = 0
    /\ nCache = [t \in Tables |-> "none"]
    /\ nMade = [t \in Tables |-> 0]
    /\ nUsed = <<>>

\* the grouper is not looked at
GroupOff ==
    /\ gFiles = <<>>
    /\ gN = 1
    /\ gOut = <<>>
    /\ gPc = "off"
    /\ gTrace = <<>>

\* the state of the driver while nothing runs
Idle ==
    /\ inFiles = <<>>
    /\ poolWidth = 1
    /\ schema0 = [t \in Tables |-> 0]
    /\ xnorm0 = [t \in Tables |-> NoHints]
    /\ pc = "off"
    /\ exc = "none"
    /\ mode = "none"
    /\ extracted = [exists |-> FALSE, files |-> {}]
    /\ tmp = [exists |-> FALSE, files |-> {}, schema |-> [t \in Tables |-> 0],
              updates |-> <<>>, saved |-> FALSE]
    /\ committed = [exists |-> FALSE, files |-> {},
                    schema |-> [t \in Tables |-> 0], updates |-> <<>>]
    /\ storage = [saved |-> FALSE, schema |-> [t \in Tables |-> 0]]
    /\ live = [t \in Tables |-> 0]
    /\ xnorm = xnorm0
    /\ attempts = <<>>
    /\ tasks = <<>>
    /\ sweep = <<>>
    /\ doneQ = <<>>
    /\ summary = [updates |-> <<>>, metrics |-> <<>>]
    /\ tableMetrics = [t \in Tables |-> 0]
    /\ signalled = FALSE
    /\ sigAt = "never"
    /\ raisedAt = "none"

GroupInit ==
    /\ gFiles \in GroupInputs
    /\ gN \in 1..MaxGroups
    /\ gOut = <<>>
    /\ gPc = "call"
    /\ gTrace = <<>>
    /\ RunOff
    /\ SelectOff
    /\ Idle

GroupCall ==
    /\ gPc = "call"
    /\ LET r == group_worker_files(gFiles, gN)
       IN  IF r.err
           THEN gOut' = <<>> /\ gPc' = "IndexError"
           ELSE gOut' = r.groups /\ gPc' = "returned"
    /\ UNCHANGED <<gFiles, gN, gTrace, rvars, nvars, params, disk, mvars>>

\* lines 248-266: for extracted_items_file in extracted_items_files: the files
\* in the order in which the loop of a worker job takes them
RECURSIVE ProcessOrder(_)
ProcessOrder(extracted_items_files) ==
    IF extracted_items_files = <<>> THEN <<>>
    ELSE <<Head(extracted_items_files)>> \o ProcessOrder(Tail(extracted_items_files))

\* lines 308-325 and 248-266: one worker job per group runs over its files
GroupWork ==
    /\ gPc = "returned"
    /\ gTrace' = [i \in DOMAIN gOut |-> ProcessOrder(gOut[i])]
    /\ gPc' = "processed"
    /\ UNCHANGED <<gFiles, gN, gOut, rvars, nvars, params, disk, mvars>>

GroupNext == GroupCall \/ GroupWork

SpecGroup == GroupInit /\ [][GroupNext]_vars

\* C2: Grouping totality: once group_worker_files has returned (and it always
\* returns: no IndexError), every input file is in exactly one group exactly
\* once, and nothing else is: the concatenation of the groups is a permutation
\* of files.
GroupingTotality ==
    /\ gPc # "IndexError"
    /\ gPc \in {"returned", "processed"} =>
          /\ Len(Flatten(gOut)) = Len(gFiles)
          /\ \A f \in Range(gFiles) : Count(Flatten(gOut), f) = 1
          /\ Range(Flatten(gOut)) = Range(gFiles)

\* C2 witness: a call that redistributed remainder chunks has returned
GroupingTotalityWitness ==
    /\ gPc = "returned"
    /\ Len(gFiles) = 7
    /\ gN = 4
    /\ Len(gOut) = 4

\* C3: Group bound: group_worker_files returns at most max(N, 1) groups, every
\* group is non-empty when files is non-empty, and the redistribution never
\* indexes outside the remaining groups.
GroupBound ==
    /\ gPc # "IndexError"
    /\ gPc \in {"returned", "processed"} =>
          /\ Len(gOut) <= Max(gN, 1)
          /\ gFiles # <<>> => \A i \in DOMAIN gOut : gOut[i] # <<>>

\* C3 witness: more chunks than groups were cut and the surplus was folded back
GroupBoundWitness ==
    /\ gPc = "returned"
    /\ Len(gFiles) = 5
    /\ gN = 3
    /\ Len(chunks(Sorted(gFiles), 1)) > gN
    /\ Len(gOut) = 3

\* ------------------------------------------------ files, schemas, metrics

\* ParsedLoadJobFileName.parse(file).table_name of extracted file f
FileTable(f) == inFiles[f].table

\* the type of the column that the records of extracted file f carry
FileType(f) == inFiles[f].typ

\* the number of records of extracted file f
ItemsOf(f) == f

RECURSIVE SumItems(_)
SumItems(fs) == IF fs = <<>> THEN 0 ELSE ItemsOf(Head(fs)) + SumItems(Tail(fs))

\* the files of fs that belong to table t, in order
OfTable(fs, t) == SelectSeq(fs, LAMBDA f : FileTable(f) = t)

\* item_normalizers: the tables of fs in the order of their first file
RECURSIVE TablesSeen(_)
TablesSeen(fs) ==
    IF fs = <<>> THEN <<>>
    ELSE LET before == TablesSeen(SubSeq(fs, 1, Len(fs) - 1))
             t == FileTable(fs[Len(fs)])
         IN  IF t \in Range(before) THEN before ELSE Append(before, t)

\* the item normalizer on one file: the schema updates it returns, given the
\* schema the worker was handed; a column the schema already holds at least as
\* wide is coerced to, and no update is proposed
NormalizeFile(f, snapshot) ==
    IF FileType(f) > snapshot[FileTable(f)]
    THEN <<[table |-> FileTable(f), typ |-> FileType(f)]>>
    ELSE <<>>

\* item_storage.closed_files over all normalizers: one closed output file per
\* table of the processed files fs of attempt id, with its writer metrics
ClosedFiles(id, fs) ==
    LET ts == TablesSeen(fs)
    IN  [i \in 1..Len(ts) |->
            [path |-> <<id, ts[i]>>, table |-> ts[i],
             items |-> SumItems(OfTable(fs, ts[i]))]]

Paths(metrics) == {metrics[i].path : i \in DOMAIN metrics}

\* a mutant of SchemaUpdateTable: any type replaces the column's type
SchemaUpdateTableLastWins(schema, partial) ==
    [conflict |-> FALSE, schema |-> [schema EXCEPT ![partial.table] = partial.typ]]

\* Schema.update_table(partial_table): the column is added or widened; a
\* narrower type raises CannotCoerceColumnException
SchemaUpdateTable(schema, partial) ==
    IF partial.typ >= schema[partial.table]
    THEN [conflict |-> FALSE,
          schema |-> [schema EXCEPT ![partial.table] = partial.typ]]
    ELSE [conflict |-> TRUE, schema |-> schema]

\* Normalize.update_table(schema, schema_updates): the partial tables are
\* applied one by one; the first conflict raises, with the earlier ones applied
RECURSIVE update_table(_, _)
update_table(schema, schema_updates) ==
    IF schema_updates = <<>> THEN [conflict |-> FALSE, schema |-> schema]
    ELSE LET r == SchemaUpdateTable(schema, Head(schema_updates))
         IN  IF r.conflict THEN r
             ELSE update_table(r.schema, Tail(schema_updates))

\* schema.to_dict(): the serialized snapshot handed to a worker
to_dict(schema) == schema

\* a mutant of CloneSchema: no clone is taken, the schema object the failed
\* attempt worked on is handed on
CloneSchemaShared(original, current) == current

\* schema.clone(update_normalizers=True) in spool_schema_files: a copy of the
\* package schema, whatever an earlier attempt did to its own clone
CloneSchema(original, current) == original

\* a new attempt: Normalize.w_normalize_files submitted with these params.
\* outcome records what the mapper did with the finished job: "merged",
\* "conflict" (update_table raised) or "raised" (its exception was raised)
NewAttempt(group, snapshot, kind, origin) ==
    [group |-> group, snapshot |-> snapshot, kind |-> kind, retryOf |-> origin,
     status |-> "running", pos |-> 0, updates |-> <<>>, metrics |-> <<>>,
     exc |-> "none", outcome |-> "pending", closed |-> {}, stage |-> "none"]

\* --------------------------------------------------------------- Init

\* the extracted packages tried: up to MaxFiles files, sorted by name, so the
\* tables never decrease along the list
Packages ==
    UNION {{fs \in [1..n -> [table : Tables, typ : Types]] :
               \A i \in 1..(n - 1) : fs[i].table = fs[i + 1].table \/
                                     (fs[i].table = "a" /\ fs[i + 1].table = "b")}
           : n \in 0..MaxFiles}

Init ==
    /\ GroupOff
    /\ RunOff
    /\ SelectOff
    /\ inFiles \in Packages
    /\ poolWidth \in 1..MaxWorkers
    /\ schema0 = [t \in Tables |-> IF t = "b" THEN 1 ELSE 0]
    /\ xnorm0 = [t \in Tables |-> IF t = "b" THEN EvolveOnce ELSE NoHints]
    /\ pc = "run"
    /\ exc = "none"
    /\ mode = "none"
    /\ extracted = [exists |-> TRUE, files |-> DOMAIN inFiles]
    /\ tmp = [exists |-> FALSE, files |-> {}, schema |-> [t \in Tables |-> 0],
              updates |-> <<>>, saved |-> FALSE]
    /\ committed = [exists |-> FALSE, files |-> {},
                    schema |-> [t \in Tables |-> 0], updates |-> <<>>]
    /\ storage = [saved |-> FALSE, schema |-> schema0]
    /\ live = schema0
    /\ xnorm = xnorm0
    /\ attempts = <<>>
    /\ tasks = <<>>
    /\ sweep = <<>>
    /\ doneQ = <<>>
    /\ summary = [updates |-> <<>>, metrics |-> <<>>]
    /\ tableMetrics = [t \in Tables |-> 0]
    /\ signalled = FALSE
    /\ sigAt = "never"
    /\ raisedAt = "none"

\* ------------------------------------------------- w_normalize_files

\* run() is under way: the pool and its jobs are watched until run() ends
Active == pc \notin {"off", "raised", "returned"}

Running(id) == Active /\ id \in DOMAIN attempts /\ attempts[id].status = "running"

\* lines 248-266: the files fs are normalized in order, each one's schema
\* updates appended to schema_updates
RECURSIVE SchemaUpdates(_, _)
SchemaUpdates(fs, snapshot) ==
    IF fs = <<>> THEN <<>>
    ELSE NormalizeFile(Head(fs), snapshot) \o SchemaUpdates(Tail(fs), snapshot)

\* a mutant of GatherMetrics: the metrics of the closed files are dropped
GatherNothing(closed) == <<>>

\* lines 228-232, the finally block of _gather_metrics_and_close: the metrics
\* of closed_files(load_id) of every normalizer, whatever the try block did
GatherMetrics(closed) == closed

\* the job ends having processed its first n files: the future is done, with
\* a result or with an exception raised at the given stage ("setup" before the
\* try block, "file" in the loop over the files, "close" in closing the
\* writers); closed are the output files that were closed into the package
Finish(id, n, exception, stage, closed) ==
    /\ attempts' = [attempts EXCEPT
           ![id].status = "done",
           ![id].pos = n,
           ![id].updates = SchemaUpdates(SubSeq(attempts[id].group, 1, n),
                                         attempts[id].snapshot),
           ![id].exc = exception,
           ![id].stage = stage,
           ![id].closed = Paths(closed),
           ![id].metrics = IF stage = "setup" THEN <<>> ELSE GatherMetrics(closed)]
    /\ tmp' = [tmp EXCEPT !.files = @ \cup Paths(closed)]
    /\ doneQ' = IF id \in Range(tasks) THEN Append(doneQ, id) ELSE doneQ

\* close_writers over the normalizers of the files fs, in the order of the
\* cache, when the call raises at some writer: the writers before it are closed
ClosedBefore(id, fs) ==
    {SubSeq(ClosedFiles(id, fs), 1, k) : k \in 0..(Len(TablesSeen(fs)) - 1)}

\* lines 111-128, outside the try block: an exception there (or one of the pool)
\* reaches the future as it is, not wrapped in NormalizeJobFailed
WorkerRaisesUnwrapped(id) ==
    /\ Running(id)
    /\ \E kind \in {"CannotCoerceColumn", "Other"} :
          Finish(id, 0, kind, "setup", <<>>)
    /\ UNCHANGED <<gvars, nvars, rvars, params, xnorm, extracted, committed, storage, pc,
                   exc, mode, live, tasks, sweep, summary, tableMetrics, signalled,
                   sigAt, raisedAt>>

\* lines 246-270: the first n files are normalized and the next one raises;
\* the writers are closed without flushing, the metrics of the files closed
\* are gathered, and the job fails with NormalizeJobFailed carrying them
WorkerFileFails(id) ==
    /\ Running(id)
    /\ \E n \in 0..(Len(attempts[id].group) - 1) :
          Finish(id, n, "NormalizeJobFailed", "file",
                 IF tmp.exists
                 THEN ClosedFiles(id, SubSeq(attempts[id].group, 1, n))
                 ELSE <<>>)
    /\ UNCHANGED <<gvars, nvars, rvars, params, xnorm, extracted, committed, storage, pc,
                   exc, mode, live, tasks, sweep, summary, tableMetrics, signalled,
                   sigAt, raisedAt>>

\* lines 246-270 with lines 219-238: as WorkerFileFails, and closing the writers
\* raises as well at some writer; that exception is swallowed (line 238) and
\* the metrics of the files that were closed are carried
WorkerFileFailsCloseRaises(id) ==
    /\ Running(id)
    /\ \E n \in 0..(Len(attempts[id].group) - 1) :
          \E closed \in ClosedBefore(id, SubSeq(attempts[id].group, 1, n)) :
              Finish(id, n, "NormalizeJobFailed", "file", closed)
    /\ UNCHANGED <<gvars, nvars, rvars, params, xnorm, extracted, committed, storage, pc,
                   exc, mode, live, tasks, sweep, summary, tableMetrics, signalled,
                   sigAt, raisedAt>>

\* lines 218-243 and 272: every file is normalized and closing the writers
\* raises at some writer; the writers are closed again without flushing, which
\* closes the rest or raises again, the metrics of the files closed are
\* gathered, and the job fails with NormalizeJobFailed carrying them (line 242)
WorkerCloseFails(id) ==
    /\ Running(id)
    /\ \E closed \in ClosedBefore(id, attempts[id].group)
                      \cup {ClosedFiles(id, attempts[id].group)} :
          Finish(id, Len(attempts[id].group), "NormalizeJobFailed", "close", closed)
    /\ UNCHANGED <<gvars, nvars, rvars, params, xnorm, extracted, committed, storage, pc,
                   exc, mode, live, tasks, sweep, summary, tableMetrics, signalled,
                   sigAt, raisedAt>>

\* lines 246-275: every file is normalized; the writers are flushed and closed
\* and the job returns TWorkerRV(schema_updates, writer_metrics). Closing into
\* a package directory that is gone raises: NormalizeJobFailed (line 242)
WorkerCompletes(id) ==
    /\ Running(id)
    /\ IF tmp.exists
       THEN Finish(id, Len(attempts[id].group), "none", "none",
                   ClosedFiles(id, attempts[id].group))
       ELSE Finish(id, Len(attempts[id].group), "NormalizeJobFailed", "close", <<>>)
    /\ UNCHANGED <<gvars, nvars, rvars, params, xnorm, extracted, committed, storage, pc,
                   exc, mode, live, tasks, sweep, summary, tableMetrics, signalled,
                   sigAt, raisedAt>>

\* ------------------------------------------- the calling thread: control

\* a mutant of Handler: the except clause catches the conflict of the single
\* worker attempt as well and starts over
HandlerCatchesAgain(m, exception) ==
    IF exception = "CannotCoerceColumn" THEN "fb_delete" ELSE "raised"

\* a mutant of Handler: the except clause catches every worker failure
HandlerCatchesAll(m, exception) ==
    IF m = "parallel" /\ exception \in {"CannotCoerceColumn", "NormalizeJobFailed", "Other"}
    THEN "fb_delete" ELSE "raised"

\* spool_schema_files, lines 454-469: where an exception raised under mapper m
\* lands. Only CannotCoerceColumnException out of the parallel attempt is
\* caught; everything else leaves spool_schema_files and run()
Handler(m, exception) ==
    IF m = "parallel" /\ exception = "CannotCoerceColumn" THEN "fb_delete"
    ELSE "raised"

Raise(exception) ==
    LET target == Handler(mode, exception)
    IN  /\ pc' = target
        /\ exc' = IF target = "raised" THEN exception ELSE "none"
        /\ raisedAt' = IF target = "raised" THEN pc ELSE "none"

\* a mutant of AfterStep: the extracted package is deleted before the commit
AfterStepDeleteFirst(step) ==
    CASE step = "sf_metrics" -> "sf_save_schema"
      [] step = "sf_save_schema" -> "sf_save_pkg"
      [] step = "sf_save_pkg" -> "sf_checkpoint"
      [] step = "sf_checkpoint" -> "sf_delete_extracted"
      [] step = "sf_delete_extracted" -> "sf_commit"
      [] step = "sf_commit" -> "returned"

\* a mutant of AfterStep: no signal checkpoint before the commit
AfterStepNoCheckpoint(step) ==
    CASE step = "sf_metrics" -> "sf_save_schema"
      [] step = "sf_save_schema" -> "sf_save_pkg"
      [] step = "sf_save_pkg" -> "sf_commit"
      [] step = "sf_checkpoint" -> "sf_commit"
      [] step = "sf_commit" -> "sf_delete_extracted"
      [] step = "sf_delete_extracted" -> "returned"

\* spool_files, lines 391-444: the order of its steps after map_f returned
AfterStep(step) ==
    CASE step = "sf_metrics" -> "sf_save_schema"
      [] step = "sf_save_schema" -> "sf_save_pkg"
      [] step = "sf_save_pkg" -> "sf_checkpoint"
      [] step = "sf_checkpoint" -> "sf_commit"
      [] step = "sf_commit" -> "sf_delete_extracted"
      [] step = "sf_delete_extracted" -> "returned"

\* list_new_jobs(load_id): the files of the package as listed
Files == [i \in 1..Len(inFiles) |-> i]

NoPackage == [exists |-> FALSE, files |-> {}, schema |-> [t \in Tables |-> 0],
              updates |-> <<>>, saved |-> FALSE]

\* --------------------------------------------- run, spool_schema_files

\* run(), lines 478-514: the package is listed and its schema read; an empty
\* package is deleted, any other goes to spool_schema_files
Run ==
    /\ pc = "run"
    /\ IF Len(inFiles) = 0
       THEN /\ extracted' = [exists |-> FALSE, files |-> {}]
            /\ pc' = "returned"
       ELSE /\ pc' = "ssf_delete"
            /\ UNCHANGED extracted
    /\ UNCHANGED <<gvars, nvars, rvars, params, doneQ, xnorm, tmp, committed, storage, exc, mode, live,
                   attempts, tasks, sweep, summary, tableMetrics, signalled,
                   sigAt, raisedAt>>

\* line 448 and line 465: new_packages.delete_package(load_id)
DeletePackage ==
    /\ pc \in {"ssf_delete", "fb_delete"}
    /\ tmp' = NoPackage
    /\ pc' = IF pc = "ssf_delete" THEN "ssf_import" ELSE "fb_import"
    /\ UNCHANGED <<gvars, nvars, rvars, params, doneQ, xnorm, extracted, committed, storage, exc, mode, live,
                   attempts, tasks, sweep, summary, tableMetrics, signalled,
                   sigAt, raisedAt>>

\* lines 450-452 and 466-468: import_extracted_package creates the temp load
\* package; the extracted package is not touched
ImportPackage ==
    /\ pc \in {"ssf_import", "fb_import"}
    /\ tmp' = [NoPackage EXCEPT !.exists = TRUE]
    /\ pc' = IF pc = "ssf_import" THEN "mp_submit" ELSE "ms_submit"
    /\ UNCHANGED <<gvars, nvars, rvars, params, doneQ, xnorm, extracted, committed, storage, exc, mode, live,
                   attempts, tasks, sweep, summary, tableMetrics, signalled,
                   sigAt, raisedAt>>

\* the storage calls of run, spool_schema_files and spool_files
StorageSteps ==
    {"run", "ssf_delete", "ssf_import", "fb_delete", "fb_import",
     "sf_save_schema", "sf_save_pkg", "sf_commit", "sf_delete_extracted"}

\* a storage call raises instead of taking effect
StorageCallFails ==
    /\ pc \in StorageSteps
    /\ Raise("StorageFailure")
    /\ UNCHANGED <<gvars, nvars, rvars, params, doneQ, xnorm, disk, mode, live, attempts, tasks, sweep,
                   summary, tableMetrics, signalled, sigAt>>

\* ------------------------------------------------------- map_parallel

Remove(seq, x) == SelectSeq(seq, LAMBDA y : y # x)

\* lines 305-325: the schema is cloned for spool_files (line 457), the files
\* are grouped, and one worker job per group is submitted with the snapshot
MpSubmit ==
    /\ pc = "mp_submit"
    /\ LET schema == CloneSchema(schema0, live)
           grouped == group_worker_files(Files, poolWidth)
           first == Len(attempts)
       IN  IF grouped.err
           THEN /\ Raise("Other")
                /\ UNCHANGED <<mode, live, xnorm, attempts, tasks, doneQ, summary>>
           ELSE /\ mode' = "parallel"
                /\ live' = schema
                /\ xnorm' = CloneSchema(xnorm0, xnorm)
                /\ attempts' = attempts \o
                       [i \in 1..Len(grouped.groups) |->
                           NewAttempt(grouped.groups[i], to_dict(schema), "parallel", 0)]
                /\ tasks' = [i \in 1..Len(grouped.groups) |-> first + i]
                /\ doneQ' = <<>>
                /\ summary' = [updates |-> <<>>, metrics |-> <<>>]
                /\ pc' = "mp_loop"
                /\ UNCHANGED <<exc, raisedAt>>
    /\ UNCHANGED <<gvars, nvars, rvars, params, disk, sweep, tableMetrics, signalled, sigAt>>

\* a mutant of ListCopy: the pass goes over the tasks from the last to the first
ListCopyReversed(ts) == Reverse(ts)

\* line 330: list(tasks), the copy of the task list that a pass goes over
ListCopy(ts) == ts

\* lines 327-330: with no task left the summary is returned; otherwise the
\* signal-aware sleep raises when signalled, and a pass over list(tasks) starts
MpSleep ==
    /\ pc = "mp_loop"
    /\ IF tasks = <<>>
       THEN pc' = "sf_metrics" /\ UNCHANGED <<exc, raisedAt, sweep>>
       ELSE IF signalled
            THEN Raise("Signalled") /\ UNCHANGED sweep
            ELSE pc' = "mp_sweep" /\ sweep' = ListCopy(tasks) /\ UNCHANGED <<exc, raisedAt>>
    /\ UNCHANGED <<gvars, nvars, rvars, params, doneQ, xnorm, disk, mode, live, attempts, tasks, summary,
                   tableMetrics, signalled, sigAt>>

Cur == Head(sweep)

\* a mutant of Done: no future is ever seen done
DoneNever(id) == FALSE

\* line 332: pending.done()
Done(id) == attempts[id].status = "done"

\* the for loop moves on to the next task of the pass
NextTask ==
    /\ sweep' = Tail(sweep)
    /\ pc' = IF Tail(sweep) = <<>> THEN "mp_loop" ELSE "mp_sweep"

\* line 332: pending.done() is false
MpSkipPending ==
    /\ pc = "mp_sweep"
    /\ ~Done(Cur)
    /\ NextTask
    /\ UNCHANGED <<gvars, nvars, rvars, params, doneQ, xnorm, disk, exc, mode, live, attempts, tasks, summary,
                   tableMetrics, signalled, sigAt, raisedAt>>

\* lines 334-337: the task failed; the metrics of a NormalizeJobFailed are
\* drained into the summary, then pending.result() raises the exception
MpRaiseFailure ==
    /\ pc = "mp_sweep"
    /\ Done(Cur)
    /\ doneQ' = Remove(doneQ, Cur)
    /\ attempts[Cur].exc # "none"
    /\ summary' = IF attempts[Cur].exc = "NormalizeJobFailed"
                  THEN [summary EXCEPT !.metrics = @ \o attempts[Cur].metrics]
                  ELSE summary
    /\ attempts' = [attempts EXCEPT ![Cur].outcome = "raised"]
    /\ Raise(attempts[Cur].exc)
    /\ UNCHANGED <<gvars, nvars, rvars, params, xnorm, disk, mode, live, tasks, sweep, tableMetrics,
                   signalled, sigAt>>

\* a mutant of SummaryExtend: the metrics of the result are extended twice
SummaryExtendTwice(s, result) ==
    [updates |-> s.updates \o result.updates,
     metrics |-> s.metrics \o result.metrics \o result.metrics]

\* lines 341-342: summary.schema_updates.extend(result.schema_updates) and
\* summary.file_metrics.extend(result.file_metrics)
SummaryExtend(s, result) ==
    [updates |-> s.updates \o result.updates,
     metrics |-> s.metrics \o result.metrics]

\* lines 338-347 and 365: the worker's schema updates merge into the schema;
\* its updates and metrics join the summary and the task is removed
MpMerge ==
    /\ pc = "mp_sweep"
    /\ Done(Cur)
    /\ doneQ' = Remove(doneQ, Cur)
    /\ attempts[Cur].exc = "none"
    /\ LET r == update_table(live, attempts[Cur].updates)
       IN  /\ ~r.conflict
           /\ live' = r.schema
    /\ summary' = SummaryExtend(summary, attempts[Cur])
    /\ attempts' = [attempts EXCEPT ![Cur].outcome = "merged"]
    /\ tasks' = Remove(tasks, Cur)
    /\ NextTask
    /\ UNCHANGED <<gvars, nvars, rvars, params, xnorm, disk, exc, mode, tableMetrics, signalled,
                   sigAt, raisedAt>>

\* a mutant of RetryTasks: the retried future is not kept
RetryTasksDropped(ts, old, new) == Remove(ts, old)

\* lines 363 and 365: tasks.append((retry_pending, params)); tasks.remove(task)
RetryTasks(ts, old, new) == Remove(Append(ts, new), old)

\* a mutant of RetryAttempts: the fresh snapshot is written into the params
\* of every task instead of a new params tuple
RetryAttemptsInPlace(as, old, snapshot) ==
    [i \in 1..(Len(as) + 1) |->
        IF i = Len(as) + 1 THEN NewAttempt(as[old].group, snapshot, "retry", old)
        ELSE [as[i] EXCEPT !.snapshot = snapshot,
                           !.outcome = IF i = old THEN "conflict" ELSE @]]

\* lines 357-362: params = params[:3] + (schema_dict,) + params[4:] and
\* pool.submit: a new job over the same files with the fresh snapshot
RetryAttempts(as, old, snapshot) ==
    Append([as EXCEPT ![old].outcome = "conflict"],
           NewAttempt(as[old].group, snapshot, "retry", old))

\* a mutant of RemoveFiles: the files of the task stay where they are
RemoveFilesNone(files, metrics) == files

\* lines 354-355: for metrics in result.file_metrics: os.remove(metrics.file_path)
RemoveFiles(files, metrics) == files \ Paths(metrics)

\* lines 348-365: update_table raised CannotCoerceColumnException; the files
\* of the task are removed, the task is submitted again with a snapshot of
\* the schema as it is now, and the finished task is removed
MpConflictRetry ==
    /\ pc = "mp_sweep"
    /\ Done(Cur)
    /\ doneQ' = Remove(doneQ, Cur)
    /\ attempts[Cur].exc = "none"
    /\ LET r == update_table(live, attempts[Cur].updates)
       IN  /\ r.conflict
           /\ live' = r.schema
           /\ attempts' = RetryAttempts(attempts, Cur, to_dict(r.schema))
    /\ tmp' = [tmp EXCEPT !.files = RemoveFiles(@, attempts[Cur].metrics)]
    /\ tasks' = RetryTasks(tasks, Cur, Len(attempts) + 1)
    /\ NextTask
    /\ UNCHANGED <<gvars, nvars, rvars, params, xnorm, extracted, committed, storage, exc, mode,
                   summary, tableMetrics, signalled, sigAt, raisedAt>>

\* --------------------------------------------------------- map_single

\* line 469 and lines 371-378: a fresh clone of the schema, and
\* w_normalize_files called on all files with its snapshot
MsSubmit ==
    /\ pc = "ms_submit"
    /\ LET schema == CloneSchema(schema0, live)
       IN  /\ live' = schema
           /\ xnorm' = CloneSchema(xnorm0, xnorm)
           /\ attempts' = Append(attempts, NewAttempt(Files, to_dict(schema), "single", 0))
    /\ mode' = "single"
    /\ tasks' = <<>>
    /\ sweep' = <<>>
    /\ doneQ' = <<>>
    /\ summary' = [updates |-> <<>>, metrics |-> <<>>]
    /\ pc' = "ms_wait"
    /\ UNCHANGED <<gvars, nvars, rvars, params, disk, exc, tableMetrics, signalled, sigAt,
                   raisedAt>>

\* the attempt of the single worker mapper: the last one submitted
Single == Len(attempts)

\* lines 371-384: w_normalize_files raised, or it returned and its schema
\* updates are applied, which may raise CannotCoerceColumnException
MsReturn ==
    /\ pc = "ms_wait"
    /\ attempts[Single].status = "done"
    /\ IF attempts[Single].exc # "none"
       THEN /\ Raise(attempts[Single].exc)
            /\ attempts' = [attempts EXCEPT ![Single].outcome = "raised"]
            /\ UNCHANGED <<live, summary>>
       ELSE LET r == update_table(live, attempts[Single].updates)
            IN  /\ live' = r.schema
                /\ IF r.conflict
                   THEN /\ Raise("CannotCoerceColumn")
                        /\ attempts' = [attempts EXCEPT ![Single].outcome = "conflict"]
                        /\ UNCHANGED summary
                   ELSE /\ summary' = [updates |-> attempts[Single].updates,
                                       metrics |-> attempts[Single].metrics]
                        /\ attempts' = [attempts EXCEPT ![Single].outcome = "merged"]
                        /\ pc' = "sf_metrics"
                        /\ UNCHANGED <<exc, raisedAt>>
    /\ UNCHANGED <<gvars, nvars, rvars, params, doneQ, xnorm, disk, mode, tasks, sweep, tableMetrics,
                   signalled, sigAt>>

\* -------------------------------------------------------- spool_files

\* line 392: job_metrics, a dict keyed by the parsed file path: a path that
\* comes again keeps its first place
RECURSIVE JobMetrics(_)
JobMetrics(metrics) ==
    IF metrics = <<>> THEN <<>>
    ELSE LET before == JobMetrics(SubSeq(metrics, 1, Len(metrics) - 1))
             m == metrics[Len(metrics)]
         IN  IF m.path \in Paths(before) THEN before ELSE Append(before, m)

\* lines 393-398: itertools.groupby over job_metrics.items() by table name
\* starts a new group whenever the table changes, and the dict comprehension
\* keeps, for a table, the sum of the last of its groups; 0 stands for no entry
RECURSIVE GroupByTable(_, _, _)
GroupByTable(metrics, acc, prev) ==
    IF metrics = <<>> THEN acc
    ELSE LET m == Head(metrics)
         IN  GroupByTable(Tail(metrics),
                          IF m.table = prev
                          THEN [acc EXCEPT ![m.table] = @ + m.items]
                          ELSE [acc EXCEPT ![m.table] = m.items],
                          m.table)

TableMetrics(metrics) ==
    GroupByTable(JobMetrics(metrics), [t \in Tables |-> 0], "")

\* merge_schema_updates(schema_updates): per table, the columns of the later
\* partial tables overwrite those of the earlier ones
RECURSIVE MergeSchemaUpdates(_)
MergeSchemaUpdates(updates) ==
    IF updates = <<>> THEN [t \in Tables |-> 0]
    ELSE LET u == updates[Len(updates)]
             before == MergeSchemaUpdates(SubSeq(updates, 1, Len(updates) - 1))
         IN  [before EXCEPT ![u.table] = u.typ]

\* the keys of table_metrics: the tables with an entry in job_metrics
TableNames(metrics) == {t \in Tables : TableMetrics(metrics)[t] # 0}

\* lines 404-410 on the mapping of one table: "evolve-columns-once" is popped,
\* and "seen-data" is set to True if the key is not in the mapping
MarkSeenData(x_normalizer) ==
    [seen |-> IF x_normalizer.seen = "absent" THEN "true" ELSE x_normalizer.seen,
     evolve |-> FALSE]

\* lines 400-410: for table_name in table_metrics
UpdateXNormalizer(hints, names) ==
    [t \in Tables |-> IF t \in names THEN MarkSeenData(hints[t]) ELSE hints[t]]

\* lines 390-410: map_f has returned; the job and table metrics are computed
\* and the x-normalizer mapping of every table of table_metrics is updated
SfMetrics ==
    /\ pc = "sf_metrics"
    /\ tableMetrics' = TableMetrics(summary.metrics)
    /\ xnorm' = UpdateXNormalizer(xnorm, TableNames(summary.metrics))
    /\ pc' = AfterStep(pc)
    /\ UNCHANGED <<gvars, nvars, rvars, params, doneQ, disk, exc, mode, live, attempts, tasks, sweep,
                   summary, signalled, sigAt, raisedAt>>

\* lines 411-420: a modified schema is saved to the schema storage
SfSaveSchema ==
    /\ pc = "sf_save_schema"
    /\ storage' = IF live # schema0 THEN [saved |-> TRUE, schema |-> live]
                  ELSE storage
    /\ pc' = AfterStep(pc)
    /\ UNCHANGED <<gvars, nvars, rvars, params, doneQ, xnorm, extracted, tmp, committed, exc, mode, live,
                   attempts, tasks, sweep, summary, tableMetrics, signalled,
                   sigAt, raisedAt>>

\* lines 421-426: the schema and the merged schema updates are written into
\* the temp load package
SfSavePackage ==
    /\ pc = "sf_save_pkg"
    /\ tmp' = [tmp EXCEPT !.schema = live,
                          !.updates = MergeSchemaUpdates(summary.updates),
                          !.saved = TRUE]
    /\ pc' = AfterStep(pc)
    /\ UNCHANGED <<gvars, nvars, rvars, params, doneQ, xnorm, extracted, committed, storage, exc, mode, live,
                   attempts, tasks, sweep, summary, tableMetrics, signalled,
                   sigAt, raisedAt>>

\* line 428: signals.raise_if_signalled()
SfCheckpoint ==
    /\ pc = "sf_checkpoint"
    /\ IF signalled
       THEN Raise("Signalled")
       ELSE pc' = AfterStep(pc) /\ UNCHANGED <<exc, raisedAt>>
    /\ UNCHANGED <<gvars, nvars, rvars, params, doneQ, xnorm, disk, mode, live, attempts, tasks, sweep,
                   summary, tableMetrics, signalled, sigAt>>

\* line 431: commit_new_load_package renames the temp load package
SfCommit ==
    /\ pc = "sf_commit"
    /\ committed' = [exists |-> TRUE, files |-> tmp.files, schema |-> tmp.schema,
                     updates |-> tmp.updates]
    /\ tmp' = NoPackage
    /\ pc' = AfterStep(pc)
    /\ UNCHANGED <<gvars, nvars, rvars, params, doneQ, xnorm, extracted, storage, exc, mode, live, attempts,
                   tasks, sweep, summary, tableMetrics, signalled, sigAt,
                   raisedAt>>

\* lines 433-444: the extracted package is deleted and the step info completed
SfDeleteExtracted ==
    /\ pc = "sf_delete_extracted"
    /\ extracted' = [exists |-> FALSE, files |-> {}]
    /\ pc' = AfterStep(pc)
    /\ UNCHANGED <<gvars, nvars, rvars, params, doneQ, xnorm, tmp, committed, storage, exc, mode, live,
                   attempts, tasks, sweep, summary, tableMetrics, signalled,
                   sigAt, raisedAt>>

\* ------------------------------------------------------------ the signal

\* the phase of run() that pc lies in: before the workers are submitted,
\* between their submission and the checkpoint of line 428, between the
\* checkpoint and the commit, and after the commit
Phase(p) ==
    IF p \in {"run", "ssf_delete", "ssf_import", "mp_submit"} THEN "before"
    ELSE IF p = "sf_commit" THEN "window"
    ELSE IF p = "sf_delete_extracted" THEN "after"
    ELSE "mapping"

\* the process is signalled while run() is under way
SetSignal ==
    /\ Active
    /\ ~signalled
    /\ signalled' = TRUE
    /\ sigAt' = Phase(pc)
    /\ UNCHANGED <<gvars, nvars, rvars, params, doneQ, xnorm, disk, pc, exc, mode, live, attempts, tasks,
                   sweep, summary, tableMetrics, raisedAt>>

\* ------------------------------------------------------------------ Spec

Next ==
    \/ Run
    \/ DeletePackage
    \/ ImportPackage
    \/ StorageCallFails
    \/ MpSubmit
    \/ MpSleep
    \/ MpSkipPending
    \/ MpRaiseFailure
    \/ MpMerge
    \/ MpConflictRetry
    \/ MsSubmit
    \/ MsReturn
    \/ SfMetrics
    \/ SfSaveSchema
    \/ SfSavePackage
    \/ SfCheckpoint
    \/ SfCommit
    \/ SfDeleteExtracted
    \/ SetSignal
    \/ \E id \in DOMAIN attempts : WorkerRaisesUnwrapped(id)
    \/ \E id \in DOMAIN attempts : WorkerFileFails(id)
    \/ \E id \in DOMAIN attempts : WorkerCompletes(id)

Spec == Init /\ [][Next]_vars

\* a step of some worker job of the pool
WorkerStep ==
    \E id \in DOMAIN attempts :
        \/ WorkerRaisesUnwrapped(id)
        \/ WorkerFileFails(id)
        \/ WorkerCompletes(id)

\* a step of the poll loop of map_parallel
MapParallelStep ==
    MpSleep \/ MpSkipPending \/ MpRaiseFailure \/ MpMerge \/ MpConflictRetry

\* the pool runs every job it was given to its end, and the calling thread
\* keeps running its loop
SpecLive == Spec /\ WF_vars(WorkerStep) /\ WF_vars(MapParallelStep)

\* ---------------------------------------------------------------- claims

Intact == extracted = [exists |-> TRUE, files |-> DOMAIN inFiles]

Ids(kinds) == {id \in DOMAIN attempts : attempts[id].kind \in kinds}

\* the mapper has returned its summary to spool_files
AfterMap ==
    {"sf_metrics", "sf_save_schema", "sf_save_pkg", "sf_checkpoint", "sf_commit",
     "sf_delete_extracted", "returned"}

\* C1: Atomic commit: whenever run() has raised at a step before
\* commit_new_load_package took effect (a worker failed, a conflict was fatal,
\* a storage call raised, the run was cancelled), there is no committed load
\* package and the extracted package still exists with all of its files.
AtomicCommit ==
    (pc = "raised" /\ raisedAt # "sf_delete_extracted") =>
        /\ ~committed.exists
        /\ Intact

\* C1 witness: the commit itself failed, with normalized files in the temp package
AtomicCommitWitness ==
    /\ pc = "raised"
    /\ raisedAt = "sf_commit"
    /\ exc = "StorageFailure"
    /\ tmp.files # {}

\* C4: Conflict retry protocol: in every step of map_parallel in which applying
\* a finished task's schema updates raises CannotCoerceColumn, (a) exactly the
\* output files of that task's metrics leave the temp package, (b) a new job
\* over the same group of files is submitted with a snapshot of the live schema
\* as it is then, (c) the new job is in the task list and the finished one is
\* not; and map_parallel returns only with every job it submitted merged or
\* replaced by its retry.
ConflictRetryReturn ==
    (mode = "parallel" /\ pc \in AfterMap) =>
        /\ tasks = <<>>
        /\ \A id \in Ids({"parallel", "retry"}) :
              attempts[id].outcome \in {"merged", "conflict"}
        /\ \A id \in Ids({"parallel"}) :
              attempts[id].outcome = "conflict" =>
                  \E r \in Ids({"retry"}) : attempts[r].retryOf = id

ConflictRetryProtocol ==
    [][/\ (pc = "mp_sweep" /\ Len(attempts') = Len(attempts) + 1) =>
            LET old == Head(sweep)
                new == Len(attempts')
            IN  /\ tmp'.files = tmp.files \ Paths(attempts[old].metrics)
                /\ Paths(attempts[old].metrics) = {<<old, t>> : t \in
                       Range(TablesSeen(attempts[old].group))}
                /\ attempts'[new].group = attempts[old].group
                /\ attempts'[new].snapshot = live'
                /\ attempts'[new].status = "running"
                /\ new \in Range(tasks')
                /\ old \notin Range(tasks')
       /\ ConflictRetryReturn'
      ]_vars

\* C4 witness: a retried job is outstanding and the files of the job it
\* replaces have been removed
ConflictRetryWitness ==
    \E r \in Ids({"retry"}) :
        /\ attempts[r].status = "running"
        /\ r \in Range(tasks)
        /\ attempts[attempts[r].retryOf].metrics # <<>>
        /\ Paths(attempts[attempts[r].retryOf].metrics) \cap tmp.files = {}
        /\ tmp.files # {}

\* C5: Single worker fallback: after the parallel attempt failed with
\* CannotCoerceColumn the temp package is deleted and imported again, the single
\* worker job runs over all files of the package on a fresh clone of the schema
\* as it was before the parallel attempt, and when run() returns the package is
\* committed with the schema that the single job's updates give on that clone.
SingleWorkerFallback ==
    /\ pc = "fb_import" => tmp = NoPackage
    /\ pc = "ms_submit" => (tmp.exists /\ ~tmp.saved)
    /\ pc = "ms_wait" =>
          /\ live = schema0
          /\ attempts[Single].kind = "single"
          /\ attempts[Single].snapshot = schema0
          /\ attempts[Single].group = Files
    /\ (pc = "returned" /\ mode = "single") =>
          /\ committed.exists
          /\ ~update_table(schema0, attempts[Single].updates).conflict
          /\ committed.schema = update_table(schema0, attempts[Single].updates).schema
          /\ Paths(attempts[Single].metrics) \subseteq committed.files

\* C5 witness: the package was committed by the fallback after a parallel job
\* had merged a schema update
SingleWorkerFallbackWitness ==
    /\ pc = "returned"
    /\ mode = "single"
    /\ committed.exists
    /\ \E id \in Ids({"parallel"}) :
          /\ attempts[id].outcome = "merged"
          /\ attempts[id].updates # <<>>
          /\ update_table(schema0, attempts[id].updates).schema # committed.schema

\* C6: The Spooler recovers a coercion conflict once: one call of
\* spool_schema_files makes at most one parallel attempt (the jobs of one
\* grouping) followed by at most one single worker attempt; a CannotCoerceColumn
\* raised while the single worker's updates are applied leaves run() as that
\* exception, and the package is not committed.
RecoversOnceState ==
    /\ \A s \in Ids({"single"}) :
          /\ s = Len(attempts)
          /\ Ids({"parallel"}) # {}
    /\ exc = "CannotCoerceColumn" =>
          /\ pc = "raised"
          /\ mode = "single"
          /\ ~committed.exists

RecoversOnce ==
    [][/\ RecoversOnceState'
       /\ (Len(attempts') > Len(attempts) /\ attempts'[Len(attempts')].kind = "parallel")
              => attempts = <<>>
       /\ (Len(attempts') > Len(attempts) /\ attempts'[Len(attempts')].kind = "single")
              => (Ids({"single"}) = {} /\ mode = "parallel")
       /\ (/\ pc = "ms_wait"
           /\ pc' # "ms_wait"
           /\ attempts[Single].exc = "none"
           /\ update_table(live, attempts[Single].updates).conflict) =>
              (pc' = "raised" /\ exc' = "CannotCoerceColumn")
       /\ pc = "raised" => pc' = "raised"
      ]_vars

\* C6 witness: the single worker attempt ended in a conflict of its own merge
RecoversOnceWitness ==
    /\ pc = "raised"
    /\ exc = "CannotCoerceColumn"
    /\ mode = "single"
    /\ attempts[Single].exc = "none"
    /\ attempts[Single].outcome = "conflict"

\* what C7 says of the failures in the set kinds: a job whose failure the
\* mapper met is never merged or resubmitted, its failure is the one run()
\* raised, the single worker fallback is not taken after a failed parallel job,
\* and the package is not committed
FatalFor(kinds) ==
    /\ \A id \in DOMAIN attempts :
          attempts[id].retryOf # 0 => attempts[attempts[id].retryOf].exc = "none"
    /\ \A id \in DOMAIN attempts :
          attempts[id].exc \in kinds =>
              /\ attempts[id].outcome \in {"pending", "raised"}
              /\ attempts[id].outcome = "raised" =>
                    /\ pc = "raised"
                    /\ exc = attempts[id].exc
                    /\ ~committed.exists
                    /\ \A r \in DOMAIN attempts : attempts[r].retryOf # id
                    /\ attempts[id].kind # "single" => Ids({"single"}) = {}
    /\ (mode = "parallel" /\ \E id \in DOMAIN attempts : attempts[id].exc \in kinds) =>
          pc \notin AfterMap

CancelledIn(phases) ==
    sigAt \in phases =>
        /\ ~committed.exists
        /\ Intact
        /\ pc # "returned"
        /\ exc = "Signalled" => (pc = "raised" /\ tmp.exists)

\* C8 as stated: a signal set at any moment after the workers were submitted
\* and before commit_new_load_package executes prevents the commit.
MidRunCancellationAny == CancelledIn({"mapping", "window"})

\* C8 amended: a signal set after the workers were submitted and before the
\* checkpoint of line 428 executes prevents the commit: the package is not
\* committed, the extracted package is intact, and the run ended by the
\* cancellation leaves the temp load package in place.
MidRunCancellation == CancelledIn({"mapping"})

\* C8 witness: the checkpoint raised on a signal set during the mapping, with
\* normalized files in the temp package
MidRunCancellationWitness ==
    /\ sigAt = "mapping"
    /\ pc = "raised"
    /\ exc = "Signalled"
    /\ raisedAt = "sf_checkpoint"
    /\ tmp.files # {}

\* C9: The live schema changes only in steps of the calling thread: no step of
\* a worker job (a job going from running to done) changes it, and the
\* snapshot and the files a job was submitted with never change afterwards.
SchemaOwnership ==
    [][/\ (\E id \in DOMAIN attempts :
              attempts[id].status = "running" /\ attempts'[id].status = "done") =>
                  live' = live
       /\ \A id \in DOMAIN attempts :
              /\ id \in DOMAIN attempts'
              /\ attempts'[id].snapshot = attempts[id].snapshot
              /\ attempts'[id].group = attempts[id].group
      ]_vars

\* C9 witness: a job is running on a snapshot that a later merge has left behind
SchemaOwnershipWitness ==
    /\ mode = "parallel"
    /\ pc = "mp_sweep"
    /\ \E id \in Ids({"parallel"}) :
          /\ attempts[id].status = "running"
          /\ attempts[id].snapshot # live

RECURSIVE SumOfTable(_, _)
SumOfTable(metrics, t) ==
    IF metrics = <<>> THEN 0
    ELSE (IF Head(metrics).table = t THEN Head(metrics).items ELSE 0)
         + SumOfTable(Tail(metrics), t)

\* C10: Metric additivity: once spool_files has computed table_metrics, the
\* items_count of every table equals the sum of the items_count of all writer
\* metrics of that table in the list the mapper returned, in whatever order
\* the metrics are listed.
MetricAdditivity ==
    (pc \in AfterMap /\ pc # "sf_metrics") =>
        \A t \in Tables : tableMetrics[t] = SumOfTable(summary.metrics, t)

\* ------------------------------- SpecX: spool_files after the mapper returned

\* the single worker job over all files, finished and merged
MergedJob ==
    [NewAttempt(Files, to_dict(schema0), "single", 0) EXCEPT
        !.status = "done",
        !.pos = Len(Files),
        !.updates = SchemaUpdates(Files, schema0),
        !.metrics = ClosedFiles(1, Files),
        !.closed = Paths(ClosedFiles(1, Files)),
        !.outcome = "merged"]

\* map_f has just returned in spool_files: any package that normalizes without
\* a conflict, and any x-normalizer mapping of the tables of the schema
XInit ==
    /\ GroupOff
    /\ RunOff
    /\ SelectOff
    /\ inFiles \in Packages
    /\ inFiles # <<>>
    /\ poolWidth = 1
    /\ schema0 = [t \in Tables |-> IF t = "b" THEN 1 ELSE 0]
    /\ xnorm0 \in [Tables -> Hints]
    /\ ~update_table(schema0, MergedJob.updates).conflict
    /\ pc = "sf_metrics"
    /\ exc = "none"
    /\ mode = "single"
    /\ extracted = [exists |-> TRUE, files |-> DOMAIN inFiles]
    /\ tmp = [NoPackage EXCEPT !.exists = TRUE, !.files = Paths(MergedJob.metrics)]
    /\ committed = [exists |-> FALSE, files |-> {},
                    schema |-> [t \in Tables |-> 0], updates |-> <<>>]
    /\ storage = [saved |-> FALSE, schema |-> schema0]
    /\ live = update_table(schema0, MergedJob.updates).schema
    /\ xnorm = xnorm0
    /\ attempts = <<MergedJob>>
    /\ tasks = <<>>
    /\ sweep = <<>>
    /\ doneQ = <<>>
    /\ summary = [updates |-> MergedJob.updates, metrics |-> MergedJob.metrics]
    /\ tableMetrics = [t \in Tables |-> 0]
    /\ signalled = FALSE
    /\ sigAt = "never"
    /\ raisedAt = "none"

XNext == SfMetrics

SpecX == XInit /\ [][XNext]_vars

\* the tables with at least one writer metrics entry in the mapper's summary
ProducedData == {summary.metrics[i].table : i \in DOMAIN summary.metrics}

\* C11: After spool_files has updated the x-normalizer mappings, for every
\* table that produced data and whatever its mapping held before, seen-data is
\* true and evolve-columns-once is absent; the mapping of every table that
\* produced no data is as it was.
XNormalizerUpdated ==
    (pc \in AfterMap /\ pc # "sf_metrics") =>
        \A t \in Tables :
            IF t \in ProducedData
            THEN xnorm[t].seen = "true" /\ ~xnorm[t].evolve
            ELSE xnorm[t] = xnorm0[t]

\* --------------------------------- SpecRun: run() over the extracted packages

\* extracted_packages.list_packages(): the load ids with a package, ascending
ListPackages(ex) ==
    LET ids == {id \in DOMAIN ex : ex[id] # "none"}
    IN  SortSeq(CHOOSE q \in [1..Cardinality(ids) -> ids] : Range(q) = ids,
                LAMBDA a, b : a < b)

\* a mutant of IsEmptyPackage: no package is taken for empty
IsEmptyNever(package) == FALSE

\* line 505: len(schema_files) == 0
IsEmptyPackage(package) == package = "empty"

\* line 481: TRunMetrics(True, 0)
RunMetricsIdle == [done |-> TRUE, pending |-> 0]

\* a mutant of RunMetricsAfter: the packages still there are not counted
RunMetricsAfterNone(remaining) == [done |-> FALSE, pending |-> 0]

\* line 517: TRunMetrics(False, len(list_packages()))
RunMetricsAfter(remaining) == [done |-> FALSE, pending |-> remaining]

RunInit ==
    /\ GroupOff
    /\ SelectOff
    /\ Idle
    /\ rExtracted \in [1..MaxPackages -> {"none", "empty", "files"}]
    /\ rIds = <<>>
    /\ rFound = -1
    /\ rPc = "list"
    /\ rTemp = {}
    /\ rCommitted = {}
    /\ rEmptied = {}
    /\ rRet = [done |-> FALSE, pending |-> -1]

\* lines 478-481: the packages are listed; with none, run() returns
RunList ==
    /\ rPc = "list"
    /\ LET load_ids == ListPackages(rExtracted)
       IN  /\ rFound' = Len(load_ids)
           /\ IF Len(load_ids) = 0
              THEN rRet' = RunMetricsIdle /\ rPc' = "returned" /\ UNCHANGED rIds
              ELSE rIds' = load_ids /\ rPc' = "loop" /\ UNCHANGED rRet
    /\ UNCHANGED <<gvars, nvars, rExtracted, rTemp, rCommitted, rEmptied, params, disk,
                   mvars>>

\* lines 482-514: the next load id; an empty package is deleted and the loop
\* continues, any other goes to spool_schema_files
RunVisit ==
    /\ rPc = "loop"
    /\ rIds # <<>>
    /\ LET load_id == Head(rIds)
       IN  IF IsEmptyPackage(rExtracted[load_id])
           THEN /\ rExtracted' = [rExtracted EXCEPT ![load_id] = "none"]
                /\ rEmptied' = rEmptied \cup {load_id}
                /\ rIds' = Tail(rIds)
                /\ UNCHANGED rPc
           ELSE /\ rPc' = "spool"
                /\ UNCHANGED <<rExtracted, rIds, rEmptied>>
    /\ UNCHANGED <<gvars, nvars, rFound, rTemp, rCommitted, rRet, params, disk, mvars>>

\* lines 448-452: spool_schema_files imports the package: the temp load
\* package of the load id exists
RunSpoolImport ==
    /\ rPc = "spool"
    /\ rTemp' = rTemp \cup {Head(rIds)}
    /\ rPc' = "spooling"
    /\ UNCHANGED <<gvars, nvars, rExtracted, rIds, rFound, rCommitted, rEmptied, rRet,
                   params, disk, mvars>>

\* lines 431-433 and 471: spool_files committed the load package and deleted
\* the extracted one, and spool_schema_files returned
RunSpoolReturns ==
    /\ rPc = "spooling"
    /\ rCommitted' = rCommitted \cup {Head(rIds)}
    /\ rTemp' = rTemp \ {Head(rIds)}
    /\ rExtracted' = [rExtracted EXCEPT ![Head(rIds)] = "none"]
    /\ rIds' = Tail(rIds)
    /\ rPc' = "loop"
    /\ UNCHANGED <<gvars, nvars, rFound, rEmptied, rRet, params, disk, mvars>>

\* line 514: spool_schema_files raised, and so does run()
RunSpoolRaises ==
    /\ rPc \in {"spool", "spooling"}
    /\ rPc' = "raised"
    /\ UNCHANGED <<gvars, nvars, rExtracted, rIds, rFound, rTemp, rCommitted, rEmptied,
                   rRet, params, disk, mvars>>

\* line 517: every listed load id was visited; run() returns the metrics
RunReturn ==
    /\ rPc = "loop"
    /\ rIds = <<>>
    /\ rRet' = RunMetricsAfter(Len(ListPackages(rExtracted)))
    /\ rPc' = "returned"
    /\ UNCHANGED <<gvars, nvars, rExtracted, rIds, rFound, rTemp, rCommitted, rEmptied,
                   params, disk, mvars>>

\* line 516: the extractor saves a package under a new load id while run()
\* is in its loop
Extract ==
    /\ rPc \in {"loop", "spool", "spooling"}
    /\ \E id \in DOMAIN rExtracted, package \in {"empty", "files"} :
          /\ rExtracted[id] = "none"
          /\ id \notin rTemp \cup rCommitted \cup rEmptied
          /\ \A other \in DOMAIN rExtracted :
                (rExtracted[other] # "none" \/ other \in rCommitted \cup rEmptied)
                    => other < id
          /\ rExtracted' = [rExtracted EXCEPT ![id] = package]
    /\ UNCHANGED <<gvars, nvars, rIds, rFound, rPc, rTemp, rCommitted, rEmptied, rRet,
                   params, disk, mvars>>

RunNext ==
    \/ RunList
    \/ RunVisit
    \/ RunSpoolImport
    \/ RunSpoolReturns
    \/ RunSpoolRaises
    \/ RunReturn
    \/ Extract

SpecRun == RunInit /\ [][RunNext]_vars

\* C12: Empty package: the step of run() that finds the next extracted package
\* without new jobs deletes that package, creates no temp load package and no
\* committed load package for its load id, and goes on to the next load id;
\* no load package of that load id exists afterwards either.
EmptyPackage ==
    [][/\ (/\ rPc = "loop"
           /\ rIds # <<>>
           /\ rExtracted[Head(rIds)] = "empty"
           /\ <<rPc, rIds>>' # <<rPc, rIds>>) =>
              /\ rExtracted'[Head(rIds)] = "none"
              /\ Head(rIds) \notin rTemp' \cup rCommitted'
              /\ rIds' = Tail(rIds)
              /\ rPc' = "loop"
       /\ rEmptied' \cap (rTemp' \cup rCommitted') = {}
       /\ \A id \in rEmptied' : rExtracted'[id] = "none"
      ]_vars

\* C12 witness: run() returned after an empty package was deleted and a later
\* package was committed
EmptyPackageWitness ==
    /\ rPc = "returned"
    /\ \E e \in rEmptied, c \in rCommitted : e < c

\* the extracted packages present now
Remaining == Cardinality({id \in DOMAIN rExtracted : rExtracted[id] # "none"})

\* C14 as stated: whenever run() returns, the first field of the run metrics
\* is true and the pending count is the number of extracted packages present.
RunMetricsDone ==
    rPc = "returned" => (rRet.done = TRUE /\ rRet.pending = Remaining)

\* C14 amended: whenever run() returns, the first field of the run metrics is
\* true exactly when the listing found no extracted package, false after one
\* or more packages were visited, and the pending count is the number of
\* extracted packages present at return.
RunMetrics ==
    rPc = "returned" => (rRet.done = (rFound = 0) /\ rRet.pending = Remaining)

\* C14 witness: run() returned after it processed a package, with a package
\* that the extractor saved meanwhile still pending
RunMetricsWitness ==
    /\ rPc = "returned"
    /\ rCommitted # {}
    /\ rRet.pending > 0

\* one run over the files fs, one after the other, each normalized against the
\* schema that the files before it left
RECURSIVE SerialRun(_, _)
SerialRun(schema, fs) ==
    IF fs = <<>> THEN schema
    ELSE SerialRun(update_table(schema, NormalizeFile(Head(fs), schema)).schema,
                   Tail(fs))

\* the seen-data values that the files of the package give
SeenAfter ==
    [t \in Tables |->
        IF \E f \in DOMAIN inFiles : FileTable(f) = t
        THEN MarkSeenData(xnorm0[t]).seen ELSE xnorm0[t].seen]

Applies ==
    /\ pc = "mp_sweep"
    /\ attempts[Cur].outcome = "pending"
    /\ attempts'[Cur].outcome \in {"merged", "conflict"}

\* C16 as stated: the jobs' schema updates are applied in completion order:
\* when the updates of a job are applied, no job of the call that finished
\* before it is still waiting to be applied.
CompletionOrder ==
    [][Applies => Cur = Head(doneQ)]_vars

\* C16 amended: the jobs' schema updates are applied in poll order: a pass goes
\* over the task list as it is when the pass begins, in list order; the job it
\* stands at is applied there and then when it has finished without exception,
\* and nothing is applied for a job still running, which waits for a later
\* pass even if it finishes before jobs that come after it in the list.
PollOrder ==
    [][/\ (pc = "mp_loop" /\ pc' = "mp_sweep") => sweep' = tasks
       /\ (pc = "mp_sweep" /\ sweep' # sweep) =>
              /\ sweep' = Tail(sweep)
              /\ (Done(Cur) /\ attempts[Cur].exc = "none") => Applies
              /\ ~Done(Cur) => (live' = live /\ attempts' = attempts)
       /\ live' # live => (Applies \/ pc \in {"mp_submit", "ms_submit", "ms_wait"})
      ]_vars

\* C16 witness: a pass begins on two jobs that finished during the same sleep,
\* the second of the list first
PollOrderWitness ==
    /\ pc = "mp_sweep"
    /\ sweep = <<1, 2>>
    /\ doneQ = <<2, 1>>
    /\ attempts[1].exc = "none"
    /\ attempts[2].exc = "none"
    /\ attempts[1].updates # <<>>
    /\ attempts[2].updates # <<>>

IsAscending(fs) == \A i \in 1..(Len(fs) - 1) : fs[i] < fs[i + 1]

\* C17 as stated: every group that group_worker_files returns is in ascending
\* order of the file names, and a worker job takes the files of its group in
\* exactly the order of the group.
LexicographicOrder ==
    /\ gPc \in {"returned", "processed"} =>
          \A i \in DOMAIN gOut : IsAscending(gOut[i])
    /\ gPc = "processed" => gTrace = gOut

\* C17 amended: every group begins with its chunk, max(len(files) // N, 1)
\* files of the sorted list in ascending order, the chunks of the groups
\* following one another in the sorted list; redistributed remainder files
\* come after the chunk, in the order in which they were appended, which need
\* not be ascending; when the sorted list splits into no more than N chunks
\* every group is ascending; and a worker job takes the files of its group in
\* exactly the order of the group.
ChunkOrder ==
    LET size == Max(Len(gFiles) \div gN, 1)
        head(i) == SubSeq(gOut[i], 1, Min(size, Len(gOut[i])))
    IN  /\ gPc \in {"returned", "processed"} =>
              /\ \A i \in DOMAIN gOut : IsAscending(head(i))
              /\ \A i \in DOMAIN gOut : Len(gOut[i]) >= Min(size, Len(gFiles))
              /\ \A i \in 1..(Len(gOut) - 1) :
                    head(i)[Len(head(i))] < head(i + 1)[1]
              /\ Len(gFiles) <= size * gN =>
                    \A i \in DOMAIN gOut : IsAscending(gOut[i])
        /\ gPc = "processed" => gTrace = gOut

\* C17 witness: worker jobs have run over groups of which one got remainder
\* files out of order, from a list that was not sorted
ChunkOrderWitness ==
    /\ gPc = "processed"
    /\ Len(gFiles) = 7
    /\ gN = 4
    /\ ~IsAscending(gFiles)
    /\ \E i \in DOMAIN gOut : ~IsAscending(gOut[i])
    /\ gTrace = gOut

\* ------------------------------ SpecWorker: one worker job and its failures

\* one job over all files of a package has been submitted
WorkerInit ==
    /\ GroupOff
    /\ RunOff
    /\ SelectOff
    /\ inFiles \in Packages
    /\ inFiles # <<>>
    /\ poolWidth = 1
    /\ schema0 = [t \in Tables |-> IF t = "b" THEN 1 ELSE 0]
    /\ xnorm0 = [t \in Tables |-> NoHints]
    /\ pc = "ms_wait"
    /\ exc = "none"
    /\ mode = "single"
    /\ extracted = [exists |-> TRUE, files |-> DOMAIN inFiles]
    /\ tmp = [NoPackage EXCEPT !.exists = TRUE]
    /\ committed = [exists |-> FALSE, files |-> {},
                    schema |-> [t \in Tables |-> 0], updates |-> <<>>]
    /\ storage = [saved |-> FALSE, schema |-> schema0]
    /\ live = schema0
    /\ xnorm = xnorm0
    /\ attempts = <<NewAttempt(Files, to_dict(schema0), "single", 0)>>
    /\ tasks = <<>>
    /\ sweep = <<>>
    /\ doneQ = <<>>
    /\ summary = [updates |-> <<>>, metrics |-> <<>>]
    /\ tableMetrics = [t \in Tables |-> 0]
    /\ signalled = FALSE
    /\ sigAt = "never"
    /\ raisedAt = "none"

WorkerNext ==
    \/ WorkerRaisesUnwrapped(1)
    \/ WorkerFileFails(1)
    \/ WorkerFileFailsCloseRaises(1)
    \/ WorkerCloseFails(1)
    \/ WorkerCompletes(1)

SpecWorker == WorkerInit /\ [][WorkerNext]_vars

\* C18: Worker failure wrapping: a job that met an exception in the loop over
\* its files or in closing its writers ends with NormalizeJobFailed, never with
\* another exception and never with a result; the files after the failing one
\* are not processed; and the metrics it carries are those of exactly the
\* output files that were closed, also when closing raised as well.
FailureWrapping ==
    \A id \in DOMAIN attempts :
        attempts[id].status = "done" =>
            LET job == attempts[id]
                processed == SubSeq(job.group, 1, job.pos)
            IN  /\ job.stage \in {"file", "close"} <=> job.exc = "NormalizeJobFailed"
                /\ job.stage = "none" <=> job.exc = "none"
                /\ job.stage = "file" => job.pos < Len(job.group)
                /\ job.stage \in {"close", "none"} => job.pos = Len(job.group)
                /\ job.updates = SchemaUpdates(processed, job.snapshot)
                /\ job.stage # "setup" =>
                      /\ Paths(job.metrics) = job.closed
                      /\ Len(job.metrics) = Cardinality(job.closed)
                      /\ job.closed \subseteq tmp.files
                      /\ \A i \in DOMAIN job.metrics :
                            /\ job.metrics[i].table \in Range(TablesSeen(processed))
                            /\ job.metrics[i].items =
                                   SumItems(OfTable(processed, job.metrics[i].table))

\* C18 witness: the third file of a job raised and closing the writers raised
\* as well, after one of the two output files was closed
FailureWrappingWitness ==
    /\ attempts[1].status = "done"
    /\ attempts[1].stage = "file"
    /\ attempts[1].pos = 2
    /\ Len(TablesSeen(SubSeq(attempts[1].group, 1, 2))) = 2
    /\ Cardinality(attempts[1].closed) = 1
    /\ attempts[1].exc = "NormalizeJobFailed"

\* --------------------- SpecSelect: the item normalizers of one worker job

\* the file formats of extracted item files
FileFormats == {"typed-jsonl", "parquet"}

\* DataWriter.item_format_from_file_extension(file_format)
ItemFormat(file_format) == IF file_format = "parquet" THEN "arrow" ELSE "object"

\* line 199: ArrowItemsNormalizer if item_format == "arrow" else
\* JsonLItemsNormalizer
NormalizerClass(item_format) ==
    IF item_format = "arrow" THEN "ArrowItemsNormalizer" ELSE "JsonLItemsNormalizer"

\* lines 130-212, _get_items_normalizer: the class of the normalizer returned
\* for a table, which is the cached one when the table is in the cache
GetItemsNormalizer(cache, item_format, table_name) ==
    IF cache[table_name] # "none" THEN cache[table_name]
    ELSE NormalizerClass(item_format)

SelectInit ==
    /\ GroupOff
    /\ RunOff
    /\ Idle
    /\ nFiles \in UNION {[1..n -> [table : Tables, format : FileFormats]] :
                            n \in 1..MaxJobFiles}
    /\ nPos = 0
    /\ nCache = [t \in Tables |-> "none"]
    /\ nMade = [t \in Tables |-> 0]
    /\ nUsed = <<>>

\* lines 248-266: the loop takes the next file, gets the normalizer of its
\* table and calls it on the file
SelectFile ==
    /\ nPos < Len(nFiles)
    /\ LET file == nFiles[nPos + 1]
           normalizer == GetItemsNormalizer(nCache, ItemFormat(file.format),
                                            file.table)
       IN  /\ nMade' = IF nCache[file.table] = "none"
                        THEN [nMade EXCEPT ![file.table] = @ + 1] ELSE nMade
           /\ nCache' = [nCache EXCEPT ![file.table] = normalizer]
           /\ nUsed' = Append(nUsed, normalizer)
    /\ nPos' = nPos + 1
    /\ UNCHANGED <<gvars, rvars, nFiles, params, disk, mvars>>

SelectNext == SelectFile

SpecSelect == SelectInit /\ [][SelectNext]_vars

\* C19: Item normalizer selection: the normalizer called on every file that
\* the job has gone through is of the class that the file's extension selects
\* (ArrowItemsNormalizer for the arrow item format, JsonLItemsNormalizer
\* otherwise), and at most one normalizer is created per root table, whatever
\* the files of the job are.
NormalizerSelection ==
    /\ \A i \in DOMAIN nUsed :
          nUsed[i] = NormalizerClass(ItemFormat(nFiles[i].format))
    /\ \A t \in Tables : nMade[t] <= 1

\* the jobs that map_parallel left in flight when it raised: they were still
\* running then and the loop never collected them
Abandoned ==
    {id \in Ids({"parallel", "retry"}) :
        /\ attempts[id].outcome = "pending"
        /\ pc \notin {"mp_loop", "mp_sweep"}}

\* C20: Output files of abandoned workers never reach a committed package: no
\* file closed by a job that map_parallel left in flight is in the committed
\* load package, also when the job finished after the package was deleted and
\* imported again for the single worker attempt.
AbandonedOutput ==
    committed.exists =>
        \A id \in Abandoned : attempts[id].closed \cap committed.files = {}

\* map_parallel has returned its summary to spool_files, and the temp load
\* package has not been renamed yet
MapReturned ==
    /\ mode = "parallel"
    /\ pc \in {"sf_metrics", "sf_save_schema", "sf_save_pkg", "sf_checkpoint",
               "sf_commit"}

\* the jobs of map_parallel with the given outcome
JobsWith(outcome) ==
    {id \in Ids({"parallel", "retry"}) : attempts[id].outcome = outcome}

\* the merged jobs that extracted file f was handed to
Covering(f) == {id \in JobsWith("merged") : f \in Range(attempts[id].group)}

\* the retries of job id
RetriesOf(id) == {r \in Ids({"retry"}) : attempts[r].retryOf = id}

\* C21: No input file is lost or processed twice into the result: when
\* map_parallel has returned normally, every input file belongs to exactly one
\* job that ran over all of its files, whose schema updates were merged and
\* whose metrics are in the summary, and the files of the temp package are those
\* of the merged jobs; a job that ended in a coercion conflict has no file in
\* the package and no metrics in the summary, and it has one retry, over
\* exactly the same files.
NoFileLost ==
    MapReturned =>
        /\ \A f \in DOMAIN inFiles : Cardinality(Covering(f)) = 1
        /\ \A id \in JobsWith("merged") :
              /\ attempts[id].pos = Len(attempts[id].group)
              /\ Range(attempts[id].updates) \subseteq Range(summary.updates)
              /\ \A i \in DOMAIN attempts[id].metrics :
                    Count(summary.metrics, attempts[id].metrics[i]) = 1
              /\ Paths(attempts[id].metrics) \subseteq tmp.files
        /\ tmp.files = UNION {Paths(attempts[id].metrics) : id \in JobsWith("merged")}
        /\ \A id \in JobsWith("conflict") :
              /\ attempts[id].closed \cap tmp.files = {}
              /\ Paths(attempts[id].metrics) \cap Paths(summary.metrics) = {}
              /\ Cardinality(RetriesOf(id)) = 1
              /\ \A r \in RetriesOf(id) : attempts[r].group = attempts[id].group

\* C21 witness: map_parallel returned on a package of three files after the
\* job over two of them had closed its files, ended in a conflict and was retried
NoFileLostWitness ==
    /\ MapReturned
    /\ pc = "sf_metrics"
    /\ Len(inFiles) = 3
    /\ \E id \in JobsWith("conflict") :
          /\ Len(attempts[id].group) = 2
          /\ attempts[id].closed # {}
          /\ \E r \in RetriesOf(id) : attempts[r].outcome = "merged"

\* the output files that the conflict retries of the call removed
DeletedByRetry == UNION {Paths(attempts[id].metrics) : id \in JobsWith("conflict")}

\* map_parallel is in its poll loop
MapPolling == mode = "parallel" /\ pc \in {"mp_loop", "mp_sweep"}

\* C22: No metric double-counting and no stale metrics: in the summary that
\* map_parallel builds and returns, no output file path has more than one
\* metrics entry, and every path names a file of the temp package that no
\* conflict retry removed, whatever the order in which the jobs finish,
\* conflict and are retried.
NoDoubleCounting ==
    (MapPolling \/ MapReturned) =>
        /\ \A i, j \in DOMAIN summary.metrics :
              summary.metrics[i].path = summary.metrics[j].path => i = j
        /\ Paths(summary.metrics) \cap DeletedByRetry = {}
        /\ Paths(summary.metrics) \subseteq tmp.files

\* C22 witness: the summary was returned with the metrics of two files of one
\* table, one of them of the retry of a job whose files had been removed
NoDoubleCountingWitness ==
    /\ MapReturned
    /\ DeletedByRetry # {}
    /\ \E i, j \in DOMAIN summary.metrics :
          /\ i < j
          /\ summary.metrics[i].table = summary.metrics[j].table
          /\ \E r \in Ids({"retry"}) : summary.metrics[j].path[1] = r

\* the poll loop finds that the schema updates of the job it stands at raise
\* CannotCoerceColumn in update_table
MergeFails ==
    /\ pc = "mp_sweep"
    /\ attempts[Cur].outcome = "pending"
    /\ attempts'[Cur].outcome = "conflict"

\* C23: A failed merge leaves the live schema unchanged: in the step in which
\* update_table raises CannotCoerceColumn on a job's schema updates the live
\* schema stays as it was before the first of them was applied, and the
\* snapshot of the retried job is that schema.
FailedMergeUnchanged ==
    [][MergeFails =>
          /\ live' = live
          /\ attempts'[Len(attempts')].snapshot = live
      ]_vars

\* the merged manifest applied to a schema: every table of the manifest is
\* updated with its partial table; 0 stands for no entry
ApplyManifest(schema, manifest) ==
    [t \in Tables |->
        IF manifest[t] = 0 THEN schema[t]
        ELSE SchemaUpdateTable(schema, [table |-> t, typ |-> manifest[t]]).schema[t]]

\* C24: The schema-update manifest accounts for every schema change: when
\* map_parallel has returned normally, the schema updates of its summary
\* applied to the schema as it was before the call give the live schema, and
\* the merged manifest saved into the load package, applied to that schema,
\* gives the columns of the schema saved into the same package.
ManifestComplete ==
    /\ MapReturned => update_table(schema0, summary.updates).schema = live
    /\ (mode = "parallel" /\ tmp.saved) =>
          ApplyManifest(schema0, tmp.updates) = tmp.schema
    /\ (mode = "parallel" /\ committed.exists) =>
          ApplyManifest(schema0, committed.updates) = committed.schema

====
